---- MODULE Spec2Model ----
(***************************************************************************)
(* Audio delivery pipeline of the customtts background script: the         *)
(* process-wide playback globals, the chunk playback queue                 *)
(* (playNextAudio), the three session kinds started by processText         *)
(* (streaming, multi-sentence, single-shot; plus download), the transport  *)
(* commands of the runtime.onMessage listener, and the event loop that     *)
(* interleaves their continuations.                                        *)
(*                                                                         *)
(* Every action is one event-loop task.  A promise that an abort() rejects *)
(* (fetch, response.blob(), reader.read()) has its continuation run in the *)
(* microtask checkpoint of the aborting task: AbortReaction models those   *)
(* continuations and every other action waits until none is pending.       *)
(*                                                                         *)
(* The two mode flags belong to the settings store: storage.onChanged may  *)
(* rewrite streamingMode and downloadMode between any two tasks, so each   *)
(* handler that reads them takes their current values as inputs.           *)
(***************************************************************************)
EXTENDS Integers, Sequences, FiniteSets, TLC

\* ---- bounds of the model ------------------------------------------------
MaxSessions == 2   \* processText calls in one behaviour
MaxUnits    == 2   \* sentences of a text above the length threshold
MaxReads    == 2   \* reader.read() results that carry a chunk, per stream
MaxChunkLen == 2   \* bytes in one chunk

\* ---- program constants --------------------------------------------------
PCM_NUM_CHANNELS     == 1
PCM_BYTES_PER_SAMPLE == 2

Sessions == 1..MaxSessions
URLs     == 1..(MaxSessions * MaxUnits)
NoAudio  == 0          \* currentAudio === null
NoCtx    == 0          \* audioContext === null
NoCtrl   == 0          \* currentAbortController === null

\* The object URL created for sentence k of session s (k = 1 for single-shot).
Url(s, k) == (s - 1) * MaxUnits + k
Owner(u)  == ((u - 1) \div MaxUnits) + 1

VARIABLES
  currentAudio, audioContext,           \* active player / output device
  pcmStreamStopped, playbackState,
  audioQueue, isPlaying, stopRequested, currentAbortController,
  nsess,        \* sessions started so far; session nsess is the newest
  mode,         \* mode[s]: "none" | "stream" | "download" | "multi" | "single"
  pc,           \* pc[s]: where session s's own continuation is suspended
  idx,          \* idx[s]: sentence being fetched (multi) / chunks read (stream)
  nunits,       \* nunits[s]: sentences.length of a multi session
  fsig,         \* fsig[s]: controller whose signal s's request observes
  leftover,     \* leftover[s]: leftover.length of a stream session
  inflight,     \* sessions with a live request, in order of fetch() calls
  aborted,      \* controllers on which abort() was called
  url,          \* url[u]: [created, revokes] of object URL u
  aud,          \* aud[u]: the Audio element built on URL u
  ppc,          \* ppc[u]: where the player continuation of u is suspended
  ptarget,      \* ptarget[u]: element whose play() promise u awaits
  prej,         \* prej[u]: why that promise was rejected ("no" if pending)
  ctx,          \* ctx[c]: AudioContext created by stream session c
  sched,        \* sched[c]: buffers were scheduled on context c
  active,       \* history: items dequeued (or built) and not yet completed
  nullBy,       \* history: who last set currentAudio to null
  log,          \* history: what the task that just ran reported by logError
  \* -- one run of readAndPlay on its own (SpecPcm) --
  bytes,            \* the whole byte stream the response body will deliver
  delivered,        \* how many of its bytes reader.read() has returned
  leftoverBytes,    \* the local leftover of processPCMStream
  decoded,          \* samples of the buffers scheduled so far, concatenated
  scheduled,        \* [start, frames] of every source.start() so far
  pcmPlaybackTime,  \* the running cursor, in frames
  currentTime,      \* audioContext.currentTime, in frames
  loop,             \* "off" | "reading" | "done" | "failed"
  reads,            \* reader.read() calls answered so far
  \* -- the text handling of processText on its own (SpecSeg) --
  text,             \* the text of the last processText call
  lastIndex,        \* CONFIG.SENTENCE_REGEX.lastIndex
  inputs,           \* the input fields of the requests that call leads to
  calls             \* processText calls so far

globalVars   == <<currentAudio, audioContext, pcmStreamStopped, playbackState,
                  audioQueue, isPlaying, stopRequested, currentAbortController>>
sessionVars  == <<nsess, mode, pc, idx, nunits, fsig, leftover, inflight, aborted>>
playerVars   == <<url, aud, ppc, ptarget, prej>>
deviceVars   == <<ctx, sched>>
historyVars  == <<active, nullBy, log>>
pcmVars      == <<bytes, delivered, leftoverBytes, decoded, scheduled,
                  pcmPlaybackTime, currentTime, loop, reads>>
segVars      == <<text, lastIndex, inputs, calls>>
pureVars     == <<pcmVars, segVars>>
mainVars     == <<globalVars, sessionVars, playerVars, deviceVars, historyVars>>
vars == <<mainVars, pureVars>>

\* ---- helpers ------------------------------------------------------------
Min(a, b) == IF a < b THEN a ELSE b

Remove(seq, s) == SelectSeq(seq, LAMBDA x : x # s)

Range(seq) == {seq[i] : i \in 1..Len(seq)}

\* new Audio(url): not started, paused attribute true, no handlers.
NewAudio  == [st |-> "ready", paused |-> TRUE, handler |-> 0]
NoElement == [st |-> "none", paused |-> TRUE, handler |-> 0]
Collected == [st |-> "gone", paused |-> TRUE, handler |-> 0]

Audible(a, t) == a[t].st = "playing" /\ ~a[t].paused

\* Garbage collection of Audio elements: an element that is neither the
\* global currentAudio nor awaited by a play() continuation can no longer be
\* reached by the script; once it is paused, ended or failed it cannot sound
\* or raise an event again and is forgotten.
Gc(a, ca, pp, pt) ==
  [t \in URLs |->
     IF /\ a[t].st \notin {"none", "gone"}
        /\ t # ca
        /\ \A u \in URLs : ~(pp[u] = "play" /\ pt[u] = t)
        /\ (a[t].paused \/ a[t].st \in {"ended", "failed"})
     THEN Collected ELSE a[t]]

\* Abort controllers no live request observes are forgotten as well.
Prune(ab, fl, fs) == {c \in ab : \E i \in 1..Len(fl) : fs[fl[i]] = c}

\* URL.revokeObjectURL(u), for every u of S.
RevokeAll(uf, S) ==
  [u \in URLs |-> IF u \in S THEN [uf[u] EXCEPT !.revokes = Min(2, @ + 1)] ELSE uf[u]]

\* URL.createObjectURL(blob) giving u.
Create(uf, u) == [uf EXCEPT ![u].created = TRUE]

\* element.pause() on the active element (no-op for null or a paused one).
PauseEl(a, t) ==
  IF t # NoAudio /\ ~a[t].paused THEN [a EXCEPT ![t].paused = TRUE] ELSE a

\* element.play(): clears the paused attribute; an ended element restarts.
PlayEl(a, t) ==
  [a EXCEPT ![t].paused = FALSE,
            ![t].st = IF @ = "ended" THEN "ready" ELSE @]

\* pause() rejects the pending play() promises of the element with AbortError.
RejectPlays(pr, a, t, why) ==
  [u \in URLs |->
     IF t # NoAudio /\ ~a[t].paused /\ ppc[u] = "play" /\ ptarget[u] = t /\ pr[u] = "no"
     THEN why ELSE pr[u]]

\* Requests whose promise an abort() has rejected and whose continuation has
\* not run yet: the pending microtasks, oldest fetch() first.
Pending ==
  SelectSeq(inflight, LAMBDA s : fsig[s] \in aborted /\ pc[s] \in {"fetch", "read"})

TaskTurn == Pending = <<>>

\* log is "none", or what logError was called for by the last task: "cancel"
\* when a stopPlayback or a superseding processText caused the error,
\* "error" otherwise.
TypeOK ==
  /\ currentAudio \in URLs \cup {NoAudio}
  /\ audioContext \in Sessions \cup {NoCtx}
  /\ pcmStreamStopped \in BOOLEAN
  /\ playbackState \in {"idle", "playing", "paused"}
  /\ isPlaying \in BOOLEAN /\ stopRequested \in BOOLEAN
  /\ currentAbortController \in Sessions \cup {NoCtrl}
  /\ nsess \in 0..MaxSessions
  /\ Range(audioQueue) \subseteq URLs
  /\ Range(inflight) \subseteq Sessions
  /\ aborted \subseteq Sessions
  /\ active \subseteq URLs
  /\ log \in {"none", "error", "cancel"}

\* The script right after it is loaded.
Loaded ==
  /\ currentAudio = NoAudio /\ audioContext = NoCtx
  /\ pcmStreamStopped = FALSE /\ playbackState = "idle"
  /\ audioQueue = <<>> /\ isPlaying = FALSE /\ stopRequested = FALSE
  /\ currentAbortController = NoCtrl
  /\ nsess = 0
  /\ mode = [s \in Sessions |-> "none"]
  /\ pc = [s \in Sessions |-> "none"]
  /\ idx = [s \in Sessions |-> 0]
  /\ nunits = [s \in Sessions |-> 0]
  /\ fsig = [s \in Sessions |-> NoCtrl]
  /\ leftover = [s \in Sessions |-> 0]
  /\ inflight = <<>>
  /\ aborted = {}
  /\ url = [u \in URLs |-> [created |-> FALSE, revokes |-> 0]]
  /\ aud = [u \in URLs |-> NoElement]
  /\ ppc = [u \in URLs |-> "none"]
  /\ ptarget = [u \in URLs |-> NoAudio]
  /\ prej = [u \in URLs |-> "no"]
  /\ ctx = [c \in Sessions |-> "none"]
  /\ sched = [c \in Sessions |-> FALSE]
  /\ active = {}
  /\ nullBy = "cancel"
  /\ log = "none"

\* No stream is being decoded on its own.
PcmOff ==
  /\ bytes = <<>> /\ delivered = 0 /\ leftoverBytes = <<>>
  /\ decoded = <<>> /\ scheduled = <<>>
  /\ pcmPlaybackTime = 0 /\ currentTime = 0
  /\ loop = "off" /\ reads = 0

\* No text has been handled; the shared regular expression is fresh.
SegOff == text = <<>> /\ lastIndex = 0 /\ inputs = <<>> /\ calls = 0

Init == Loaded /\ PcmOff /\ SegOff

\* ---- the chunk playback queue -------------------------------------------
\* playNextAudio(), called with the globals as the caller has left them:
\* q = audioQueue, isP = isPlaying, ca = currentAudio, ps = playbackState
\* (pt = the caller's ptarget').  It returns at once if an item is playing or
\* nothing is queued; otherwise it marks "now playing", dequeues the head and
\* builds its element, and is then suspended on the storage read.
PlayNextAudio(q, isP, ca, ps, a, p, pt, it, nb) ==
  IF isP \/ q = <<>>
  THEN /\ isPlaying' = isP
       /\ audioQueue' = q
       /\ currentAudio' = ca
       /\ playbackState' = ps
       /\ aud' = Gc(a, ca, p, pt)
       /\ ppc' = p
       /\ active' = it
       /\ nullBy' = nb
  ELSE /\ isPlaying' = TRUE
       /\ playbackState' = "playing"
       /\ audioQueue' = Tail(q)
       /\ currentAudio' = Head(q)
       /\ aud' = Gc([a EXCEPT ![Head(q)] = NewAudio], Head(q),
                    [p EXCEPT ![Head(q)] = "storage"], pt)
       /\ ppc' = [p EXCEPT ![Head(q)] = "storage"]
       /\ active' = it \cup {Head(q)}
       /\ nullBy' = "cancel"

\* The catch block of playNextAudio for the item of URL u: report, release
\* the URL, clear the flag, go idle on an empty queue, play the next item.
\* currentAudio is left as it is.
PlayCatch(u, why, a, it) ==
  /\ log' = (why)
  /\ url' = RevokeAll(url, {u})
  /\ ptarget' = [ptarget EXCEPT ![u] = NoAudio]
  /\ PlayNextAudio(audioQueue, FALSE, currentAudio,
                   IF audioQueue = <<>> THEN "idle" ELSE playbackState,
                   a, [ppc EXCEPT ![u] = "done"],
                   [ptarget EXCEPT ![u] = NoAudio],
                   IF Audible(a, u) THEN it ELSE it \ {u},
                   nullBy)

\* The body shared by the onended and onerror handlers installed with the
\* closure value audioUrl = h.
EndedHandler(h, why, a, it) ==
  /\ log' = (why)
  /\ url' = RevokeAll(url, {h})
  /\ PlayNextAudio(audioQueue, FALSE, NoAudio,
                   IF audioQueue = <<>> THEN "idle" ELSE playbackState,
                   a, ppc, ptarget, it, "handler")

\* Why a dereference of the null currentAudio happened: a stopPlayback or
\* processText nulled it ("cancel"), or an ended/error handler did.
NullCause == IF nullBy = "handler" THEN "error" ELSE "cancel"

\* A sentence loop that goes back to its first sentence.
LoopRestarts(s) ==
  IF idx[s] + 1 > nunits[s] \/ stopRequested \/ currentAbortController = NoCtrl
  THEN /\ pc' = [pc EXCEPT ![s] = "done"]
       /\ inflight' = Remove(inflight, s)
       /\ currentAbortController' = NoCtrl
       /\ idx' = [idx EXCEPT ![s] = 0]
       /\ fsig' = [fsig EXCEPT ![s] = NoCtrl]
       /\ aborted' = Prune(aborted, Remove(inflight, s), fsig)
  ELSE /\ idx' = [idx EXCEPT ![s] = 1]
       /\ fsig' = [fsig EXCEPT ![s] = currentAbortController]
       /\ inflight' = Append(Remove(inflight, s), s)
       /\ aborted' = Prune(aborted, Append(Remove(inflight, s), s),
                           [fsig EXCEPT ![s] = currentAbortController])
       /\ UNCHANGED <<pc, currentAbortController>>

\* ---- the sentence loop of a multi-unit session --------------------------
\* The for-loop of processSentences after sentence idx[s] has been dealt
\* with: past the last sentence, or with stopRequested set, the loop ends and
\* clears the global controller.  Reading .signal of a null controller throws
\* inside the try block of every remaining iteration, so the loop ends too.
\* Otherwise the next sentence is requested on the global controller's signal.
LoopNext(s) ==
  IF idx[s] + 1 > nunits[s] \/ stopRequested \/ currentAbortController = NoCtrl
  THEN /\ pc' = [pc EXCEPT ![s] = "done"]
       /\ inflight' = Remove(inflight, s)
       /\ currentAbortController' = NoCtrl
       /\ idx' = [idx EXCEPT ![s] = 0]
       /\ fsig' = [fsig EXCEPT ![s] = NoCtrl]
       /\ aborted' = Prune(aborted, Remove(inflight, s), fsig)
  ELSE /\ idx' = [idx EXCEPT ![s] = @ + 1]
       /\ fsig' = [fsig EXCEPT ![s] = currentAbortController]
       /\ inflight' = Append(Remove(inflight, s), s)
       /\ aborted' = Prune(aborted, Append(Remove(inflight, s), s),
                           [fsig EXCEPT ![s] = currentAbortController])
       /\ UNCHANGED <<pc, currentAbortController>>

\* A session's request is over (settled, failed or cancelled) at pc value to.
Leave(s, to) ==
  /\ pc' = [pc EXCEPT ![s] = to]
  /\ inflight' = Remove(inflight, s)
  /\ fsig' = [fsig EXCEPT ![s] = NoCtrl]
  /\ aborted' = Prune(aborted, Remove(inflight, s), fsig)

\* ---- session teardown shared by stopPlayback and processText ------------
\* Items that outlive a teardown: the teardown halts the item on the active
\* element and ends every item that is not sounding.
TornDown(it) == {u \in it : u # currentAudio /\ Audible(aud, u)}

CloseCtx(c) == IF audioContext # NoCtx THEN [c EXCEPT ![audioContext] = "closed"] ELSE c

AbortCurrent ==
  IF currentAbortController # NoCtrl THEN aborted \cup {currentAbortController} ELSE aborted

\* ---- processText ---------------------------------------------------------
ModeFor(streamingMode, downloadMode, long) ==
  IF streamingMode THEN "stream"
  ELSE IF downloadMode THEN "download"
  ELSE IF long THEN "multi" ELSE "single"

\* processText(text) with text.length > TEXT_LENGTH_THRESHOLD iff long, and
\* n = splitTextIntoSentences(text).length, run while the mode flags are
\* streamingMode and downloadMode.  The previous session is torn
\* down, then the new session's controller is created and its first request
\* issued.
ProcessText(streamingMode, downloadMode, long, n) ==
  LET s == nsess + 1
      m == ModeFor(streamingMode, downloadMode, long)
      empty == m = "multi" /\ n = 0
      fl == IF empty THEN inflight ELSE Append(inflight, s)
      fs == IF empty THEN fsig ELSE [fsig EXCEPT ![s] = s]
  IN
  /\ TaskTurn
  /\ nsess < MaxSessions
  /\ nsess' = s
  /\ stopRequested' = FALSE
  /\ aud' = Gc(PauseEl(aud, currentAudio), NoAudio, ppc, ptarget)
  /\ prej' = RejectPlays(prej, aud, currentAudio, "cancel")
  /\ currentAudio' = NoAudio
  /\ nullBy' = "cancel"
  /\ ctx' = CloseCtx(ctx)
  /\ sched' = [c \in Sessions |-> sched[c] /\ c # audioContext]
  /\ audioContext' = NoCtx
  /\ pcmStreamStopped' = FALSE
  /\ url' = RevokeAll(url, Range(audioQueue))
  /\ audioQueue' = <<>>
  /\ isPlaying' = FALSE
  /\ active' = TornDown(active)
  /\ mode' = [mode EXCEPT ![s] = m]
  /\ nunits' = [nunits EXCEPT ![s] = IF m = "multi" THEN n ELSE 0]
  /\ idx' = [idx EXCEPT ![s] = IF m = "multi" /\ n > 0 THEN 1 ELSE 0]
  /\ playbackState' = IF m = "stream" THEN "playing" ELSE playbackState
  /\ currentAbortController' = IF empty THEN NoCtrl ELSE s
  /\ pc' = [pc EXCEPT ![s] = IF empty THEN "done" ELSE "fetch"]
  /\ fsig' = fs
  /\ inflight' = fl
  /\ aborted' = Prune(AbortCurrent, fl, fs)
  /\ log' = ("none")
  /\ UNCHANGED <<leftover, ppc, ptarget>>
  /\ UNCHANGED pureVars

\* ---- runtime.onMessage ---------------------------------------------------
StopPlayback ==
  /\ TaskTurn
  /\ stopRequested' = TRUE
  /\ pcmStreamStopped' = TRUE
  /\ url' = RevokeAll(url, Range(audioQueue))
  /\ audioQueue' = <<>>
  /\ isPlaying' = FALSE
  /\ playbackState' = "idle"
  /\ aborted' = Prune(AbortCurrent, inflight, fsig)
  /\ currentAbortController' = NoCtrl
  /\ ctx' = CloseCtx(ctx)
  /\ sched' = [c \in Sessions |-> sched[c] /\ c # audioContext]
  /\ audioContext' = NoCtx
  /\ aud' = Gc(PauseEl(aud, currentAudio), NoAudio, ppc, ptarget)
  /\ prej' = RejectPlays(prej, aud, currentAudio, "cancel")
  /\ currentAudio' = NoAudio
  /\ nullBy' = "cancel"
  /\ active' = TornDown(active)
  /\ log' = ("none")
  /\ UNCHANGED <<nsess, mode, pc, idx, nunits, fsig, leftover,
                 inflight, ppc, ptarget>>
  /\ UNCHANGED pureVars

\* pausePlayback, received while the streaming flag is streamingMode.
PausePlayback(streamingMode) ==
  /\ TaskTurn
  /\ IF streamingMode /\ audioContext # NoCtx /\ playbackState = "playing"
     THEN /\ ctx' = [ctx EXCEPT ![audioContext] = "suspended"]
          /\ playbackState' = "paused"
          /\ UNCHANGED <<aud, prej>>
     ELSE IF currentAudio # NoAudio /\ ~aud[currentAudio].paused
     THEN /\ aud' = PauseEl(aud, currentAudio)
          /\ prej' = RejectPlays(prej, aud, currentAudio, "pause")
          /\ playbackState' = "paused"
          /\ UNCHANGED ctx
     ELSE UNCHANGED <<ctx, playbackState, aud, prej>>
  /\ log' = ("none")
  /\ UNCHANGED <<currentAudio, audioContext, pcmStreamStopped,
                 audioQueue, isPlaying, stopRequested, currentAbortController,
                 sessionVars, url, ppc, ptarget, sched, active, nullBy>>
  /\ UNCHANGED pureVars

\* resumePlayback, received while the streaming flag is streamingMode.
ResumePlayback(streamingMode) ==
  /\ TaskTurn
  /\ IF streamingMode /\ audioContext # NoCtx /\ playbackState = "paused"
     THEN /\ ctx' = [ctx EXCEPT ![audioContext] = "running"]
          /\ playbackState' = "playing"
          /\ UNCHANGED aud
     ELSE IF currentAudio # NoAudio /\ aud[currentAudio].paused
     THEN /\ aud' = PlayEl(aud, currentAudio)
          /\ playbackState' = "playing"
          /\ UNCHANGED ctx
     ELSE UNCHANGED <<ctx, playbackState, aud>>
  /\ log' = ("none")
  /\ UNCHANGED <<currentAudio, audioContext, pcmStreamStopped,
                 audioQueue, isPlaying, stopRequested, currentAbortController,
                 sessionVars, url, ppc, ptarget, prej, sched, active, nullBy>>
  /\ UNCHANGED pureVars

\* ---- continuations of network requests ----------------------------------
Outcomes == {"ok", "http", "net"}

Waiting(s, m) == s \in Range(inflight) /\ mode[s] = m /\ pc[s] = "fetch"

\* The continuation of a request whose promise abort() rejected.  Every
\* caller drops an AbortError silently; the sentence loop then goes on to its
\* next iteration.
AbortReaction ==
  /\ Pending # <<>>
  /\ LET s == Head(Pending) IN
       IF mode[s] = "multi"
       THEN /\ LoopNext(s)
            /\ UNCHANGED leftover
       ELSE /\ Leave(s, "cancelled")
            /\ idx' = [idx EXCEPT ![s] = 0]
            /\ leftover' = [leftover EXCEPT ![s] = 0]
            /\ UNCHANGED currentAbortController
  /\ log' = "none"
  /\ UNCHANGED <<currentAudio, audioContext, pcmStreamStopped,
                 playbackState, audioQueue, isPlaying, stopRequested,
                 nsess, mode, nunits, playerVars, deviceVars, active, nullBy>>
  /\ UNCHANGED pureVars

\* A sentence loop that gives up at the first failed request (what the code
\* must not do).
SentenceFetchedFailFast(s, out) ==
  /\ TaskTurn
  /\ Waiting(s, "multi")
  /\ IF out = "ok"
     THEN LET u == Url(s, idx[s]) IN
          /\ url' = Create(url, u)
          /\ PlayNextAudio(Append(audioQueue, u), isPlaying, currentAudio,
                           playbackState, aud, ppc, ptarget,
                           active, nullBy)
          /\ log' = ("none")
          /\ LoopNext(s)
     ELSE /\ log' = ("error")
          /\ Leave(s, "failed")
          /\ UNCHANGED <<url, aud, ppc, active, nullBy, isPlaying, audioQueue,
                         currentAudio, playbackState, idx, currentAbortController>>
  /\ UNCHANGED <<audioContext, pcmStreamStopped, stopRequested,
                 nsess, mode, nunits, leftover, ptarget, prej, deviceVars>>
  /\ UNCHANGED pureVars

\* fetchSentenceAudio settles for the sentence idx[s] of session s: on
\* success the URL is pushed and playNextAudio called; a failure is reported
\* by fetchSentenceAudio and the loop carries on.
SentenceFetched(s, out) ==
  /\ TaskTurn
  /\ Waiting(s, "multi")
  /\ IF out = "ok"
     THEN LET u == Url(s, idx[s]) IN
          /\ url' = Create(url, u)
          /\ PlayNextAudio(Append(audioQueue, u), isPlaying, currentAudio,
                           playbackState, aud, ppc, ptarget,
                           active, nullBy)
          /\ log' = ("none")
     ELSE /\ log' = ("error")
          /\ UNCHANGED <<url, aud, ppc, active, nullBy, isPlaying, audioQueue,
                         currentAudio, playbackState>>
  /\ LoopNext(s)
  /\ UNCHANGED <<audioContext, pcmStreamStopped, stopRequested,
                 nsess, mode, nunits, leftover, ptarget, prej, deviceVars>>
  /\ UNCHANGED pureVars

\* The single-shot request settles: the blob's URL becomes the active player
\* and the continuation is suspended on the storage read.
SingleFetched(s, out) ==
  /\ TaskTurn
  /\ Waiting(s, "single")
  /\ IF out = "ok"
     THEN LET u == Url(s, 1) IN
          /\ Leave(s, "done")
          /\ url' = Create(url, u)
          /\ currentAudio' = u
          /\ aud' = Gc([aud EXCEPT ![u] = NewAudio], u,
                       [ppc EXCEPT ![u] = "storage"], ptarget)
          /\ ppc' = [ppc EXCEPT ![u] = "storage"]
          /\ active' = active \cup {u}
          /\ nullBy' = "cancel"
          /\ log' = ("none")
     ELSE /\ Leave(s, "failed")
          /\ log' = ("error")
          /\ UNCHANGED <<url, currentAudio, aud, ppc, active, nullBy>>
  /\ UNCHANGED <<audioContext, pcmStreamStopped, playbackState,
                 audioQueue, isPlaying, stopRequested, currentAbortController,
                 nsess, mode, idx, nunits, leftover, ptarget, prej, deviceVars>>
  /\ UNCHANGED pureVars

\* The download request settles; the payload goes to the download sink.
DownloadFetched(s, out) ==
  /\ TaskTurn
  /\ Waiting(s, "download")
  /\ Leave(s, IF out = "ok" THEN "done" ELSE "failed")
  /\ log' = (IF out = "ok" THEN "none" ELSE "error")
  /\ UNCHANGED <<globalVars, nsess, mode, idx, nunits,
                 leftover, playerVars, deviceVars, active, nullBy>>
  /\ UNCHANGED pureVars

\* ---- the PCM streaming path ---------------------------------------------
\* The streaming request's headers arrive: processPCMStream sets playing,
\* replaces the output device and is suspended on the storage read.
StreamFetched(s, out) ==
  /\ TaskTurn
  /\ Waiting(s, "stream")
  /\ IF out = "ok"
     THEN /\ playbackState' = "playing"
          /\ ctx' = [CloseCtx(ctx) EXCEPT ![s] = "running"]
          /\ sched' = [c \in Sessions |-> sched[c] /\ c # audioContext]
          /\ audioContext' = s
          /\ pc' = [pc EXCEPT ![s] = "storage"]
          /\ log' = ("none")
          /\ UNCHANGED <<inflight, fsig, aborted>>
     ELSE /\ Leave(s, "failed")
          /\ log' = ("error")
          /\ UNCHANGED <<playbackState, ctx, sched, audioContext>>
  /\ UNCHANGED <<currentAudio, pcmStreamStopped, audioQueue,
                 isPlaying, stopRequested, currentAbortController,
                 nsess, mode, idx, nunits, leftover, playerVars, active, nullBy>>
  /\ UNCHANGED pureVars

\* The storage read of processPCMStream returns: createGain() on the global
\* device (a TypeError if it is null, reported by processText's catch),
\* the stopped flag is cleared and the first read is issued.
StreamStorageResolved(s) ==
  /\ TaskTurn
  /\ pc[s] = "storage"
  /\ IF audioContext = NoCtx
     THEN /\ Leave(s, "cancelled")
          /\ log' = ("cancel")
          /\ UNCHANGED pcmStreamStopped
     ELSE /\ pcmStreamStopped' = FALSE
          /\ pc' = [pc EXCEPT ![s] = "read"]
          /\ log' = ("none")
          /\ UNCHANGED <<inflight, fsig, aborted>>
  /\ UNCHANGED <<currentAudio, audioContext, playbackState,
                 audioQueue, isPlaying, stopRequested, currentAbortController,
                 nsess, mode, idx, nunits, leftover,
                 playerVars, deviceVars, active, nullBy>>
  /\ UNCHANGED pureVars

FrameSize == PCM_NUM_CHANNELS * PCM_BYTES_PER_SAMPLE

\* readAndPlay leaves its loop (to = "done") or throws (to = "failed"); its
\* locals are gone either way.
StreamEnds(s, to) ==
  /\ Leave(s, to)
  /\ leftover' = [leftover EXCEPT ![s] = 0]
  /\ idx' = [idx EXCEPT ![s] = 0]

\* reader.read() delivers a chunk of len bytes.
StreamRead(s, len) ==
  LET total == (leftover[s] + len) \div FrameSize
      rest  == (leftover[s] + len) % FrameSize
      goOn  == /\ leftover' = [leftover EXCEPT ![s] = IF len = 0 THEN @ ELSE rest]
               /\ idx' = [idx EXCEPT ![s] = @ + 1]
               /\ UNCHANGED <<pc, inflight, fsig, aborted>>
  IN
  /\ TaskTurn
  /\ pc[s] = "read"
  /\ idx[s] < MaxReads
  /\ IF len = 0
     THEN /\ IF pcmStreamStopped THEN StreamEnds(s, "done") ELSE goOn
          /\ log' = ("none")
          /\ UNCHANGED sched
     ELSE IF audioContext = NoCtx
     THEN /\ StreamEnds(s, "done")
          /\ log' = ("none")
          /\ UNCHANGED sched
     ELSE IF total = 0
     THEN \* createBuffer(channels, 0, rate) throws NotSupportedError
          /\ StreamEnds(s, "failed")
          /\ log' = ("error")
          /\ UNCHANGED sched
     ELSE /\ sched' = [sched EXCEPT ![audioContext] = TRUE]
          /\ IF pcmStreamStopped THEN StreamEnds(s, "done") ELSE goOn
          /\ log' = ("none")
  /\ UNCHANGED <<globalVars, nsess, mode, nunits,
                 playerVars, ctx, active, nullBy>>
  /\ UNCHANGED pureVars

\* reader.read() reports end-of-stream.
StreamDone(s) ==
  /\ TaskTurn
  /\ pc[s] = "read"
  /\ StreamEnds(s, "done")
  /\ log' = ("none")
  /\ UNCHANGED <<globalVars, nsess, mode, nunits,
                 playerVars, deviceVars, active, nullBy>>
  /\ UNCHANGED pureVars

\* ---- continuations of the players ---------------------------------------
Queued(u) == mode[Owner(u)] = "multi"

\* The storage read after `new Audio(url)` returns.  The volume is set on,
\* and play() called on, whatever the global currentAudio is by then; a null
\* currentAudio is a TypeError, which playNextAudio's catch always reports
\* and the single-shot catch reports because it is no AbortError.
PlayerStorageResolved(u) ==
  /\ TaskTurn
  /\ ppc[u] = "storage"
  /\ IF currentAudio = NoAudio
     THEN IF Queued(u)
          THEN /\ PlayCatch(u, NullCause, aud, active)
               /\ UNCHANGED prej
          ELSE /\ ppc' = [ppc EXCEPT ![u] = "done"]
               /\ active' = active \ {u}
               /\ log' = (NullCause)
               /\ UNCHANGED <<url, aud, ptarget, prej, nullBy, isPlaying,
                              audioQueue, currentAudio, playbackState>>
     ELSE /\ aud' = PlayEl(aud, currentAudio)
          /\ ppc' = [ppc EXCEPT ![u] = "play"]
          /\ ptarget' = [ptarget EXCEPT ![u] = currentAudio]
          /\ prej' = [prej EXCEPT ![u] = "no"]
          /\ playbackState' = IF Queued(u) THEN playbackState ELSE "playing"
          /\ log' = ("none")
          /\ UNCHANGED <<url, active, nullBy, isPlaying, audioQueue, currentAudio>>
  /\ UNCHANGED <<audioContext, pcmStreamStopped, stopRequested,
                 currentAbortController, sessionVars, deviceVars>>
  /\ UNCHANGED pureVars

\* Playback of the awaited element begins and its play() promise resolves.
\* playNextAudio then installs onended/onerror on the global currentAudio.
PlayStarted(u) ==
  LET t  == ptarget[u]
      a1 == [aud EXCEPT ![t].st = "playing"]
      pt == [ptarget EXCEPT ![u] = NoAudio]
      pp == [ppc EXCEPT ![u] = "done"]
  IN
  /\ TaskTurn
  /\ ppc[u] = "play" /\ prej[u] = "no"
  /\ aud[t].st \in {"ready", "playing"} /\ ~aud[t].paused
  /\ IF Queued(u) /\ currentAudio = NoAudio
     THEN PlayCatch(u, NullCause, a1, active)
     ELSE /\ aud' = Gc(IF Queued(u) THEN [a1 EXCEPT ![currentAudio].handler = u] ELSE a1,
                       currentAudio, pp, pt)
          /\ ppc' = pp
          /\ ptarget' = pt
          /\ log' = ("none")
          /\ UNCHANGED <<url, active, nullBy, isPlaying, audioQueue, currentAudio,
                         playbackState>>
  /\ UNCHANGED <<audioContext, pcmStreamStopped, stopRequested,
                 currentAbortController, sessionVars, prej, deviceVars>>
  /\ UNCHANGED pureVars

\* The play() promise was rejected with AbortError by a pause() call.
PlayRejected(u) ==
  LET pt == [ptarget EXCEPT ![u] = NoAudio]
      pp == [ppc EXCEPT ![u] = "done"]
  IN
  /\ TaskTurn
  /\ ppc[u] = "play" /\ prej[u] # "no"
  /\ prej' = [prej EXCEPT ![u] = "no"]
  /\ IF Queued(u)
     THEN PlayCatch(u, IF prej[u] = "cancel" THEN "cancel" ELSE "error", aud, active)
     ELSE /\ ppc' = pp
          /\ ptarget' = pt
          /\ aud' = Gc(aud, currentAudio, pp, pt)
          /\ log' = ("none")
          /\ UNCHANGED <<url, active, nullBy, isPlaying, audioQueue,
                         currentAudio, playbackState>>
  /\ UNCHANGED <<audioContext, pcmStreamStopped, stopRequested,
                 currentAbortController, sessionVars, deviceVars>>
  /\ UNCHANGED pureVars

\* The media cannot be loaded or decoded: the play() promise is rejected
\* with NotSupportedError.
PlayFailed(u) ==
  LET t  == ptarget[u]
      a1 == [aud EXCEPT ![t].st = "failed"]
      it == active \ {t}
      pt == [ptarget EXCEPT ![u] = NoAudio]
      pp == [ppc EXCEPT ![u] = "done"]
  IN
  /\ TaskTurn
  /\ ppc[u] = "play" /\ prej[u] = "no"
  /\ aud[t].st \in {"ready", "failed"}
  /\ IF Queued(u)
     THEN PlayCatch(u, "error", a1, it)
     ELSE /\ aud' = Gc(a1, currentAudio, pp, pt)
          /\ active' = it \ {u}
          /\ ppc' = pp
          /\ ptarget' = pt
          /\ log' = ("error")
          /\ UNCHANGED <<url, nullBy, isPlaying, audioQueue, currentAudio,
                         playbackState>>
  /\ UNCHANGED <<audioContext, pcmStreamStopped, stopRequested,
                 currentAbortController, sessionVars, prej, deviceVars>>
  /\ UNCHANGED pureVars

AwaitedBy(t) == {u \in URLs : ppc[u] = "play" /\ ptarget[u] = t}

\* Playback begins on an element nobody awaits (started by resumePlayback).
AudioBegins(t) ==
  /\ TaskTurn
  /\ aud[t].st = "ready" /\ ~aud[t].paused /\ AwaitedBy(t) = {}
  /\ aud' = [aud EXCEPT ![t].st = "playing"]
  /\ log' = ("none")
  /\ UNCHANGED <<globalVars, sessionVars, url, ppc, ptarget, prej,
                 deviceVars, active, nullBy>>
  /\ UNCHANGED pureVars

\* The element reaches the end of its media: the ended event.  Whether the
\* paused attribute is set when playback ends (p) depends on the browser.
ItemEnded(t, p) ==
  LET a1 == [aud EXCEPT ![t].st = "ended", ![t].paused = p]
      it == active \ {t}
  IN
  /\ TaskTurn
  /\ Audible(aud, t)
  /\ IF aud[t].handler # 0
     THEN EndedHandler(aud[t].handler, "none", a1, it)
     ELSE /\ aud' = Gc(a1, currentAudio, ppc, ptarget)
          /\ active' = it
          /\ log' = ("none")
          /\ UNCHANGED <<url, ppc, nullBy, isPlaying, audioQueue, currentAudio,
                         playbackState>>
  /\ UNCHANGED <<audioContext, pcmStreamStopped, stopRequested,
                 currentAbortController, sessionVars, ptarget, prej, deviceVars>>
  /\ UNCHANGED pureVars

\* The element fails while playing: the error event.
ItemErrored(t) ==
  LET a1 == [aud EXCEPT ![t].st = "failed"]
      it == active \ {t}
  IN
  /\ TaskTurn
  /\ Audible(aud, t)
  /\ IF aud[t].handler # 0
     THEN EndedHandler(aud[t].handler, "error", a1, it)
     ELSE /\ aud' = Gc(a1, currentAudio, ppc, ptarget)
          /\ active' = it
          /\ log' = ("none")
          /\ UNCHANGED <<url, ppc, nullBy, isPlaying, audioQueue, currentAudio,
                         playbackState>>
  /\ UNCHANGED <<audioContext, pcmStreamStopped, stopRequested,
                 currentAbortController, sessionVars, ptarget, prej, deviceVars>>
  /\ UNCHANGED pureVars

\* ---- the event loop ------------------------------------------------------
Next ==
  \/ \E sm \in BOOLEAN, dm \in BOOLEAN, long \in BOOLEAN, n \in 0..MaxUnits :
       ProcessText(sm, dm, long, n)
  \/ StopPlayback
  \/ \E sm \in BOOLEAN : PausePlayback(sm)
  \/ \E sm \in BOOLEAN : ResumePlayback(sm)
  \/ AbortReaction
  \/ \E s \in Sessions, out \in Outcomes : SentenceFetched(s, out)
  \/ \E s \in Sessions, out \in Outcomes : SingleFetched(s, out)
  \/ \E s \in Sessions, out \in Outcomes : DownloadFetched(s, out)
  \/ \E s \in Sessions, out \in Outcomes : StreamFetched(s, out)
  \/ \E s \in Sessions : StreamStorageResolved(s)
  \/ \E s \in Sessions, len \in 0..MaxChunkLen : StreamRead(s, len)
  \/ \E s \in Sessions : StreamDone(s)
  \/ \E u \in URLs : PlayerStorageResolved(u)
  \/ \E u \in URLs : PlayStarted(u)
  \/ \E u \in URLs : PlayRejected(u)
  \/ \E u \in URLs : PlayFailed(u)
  \/ \E t \in URLs : AudioBegins(t)
  \/ \E t \in URLs, p \in BOOLEAN : ItemEnded(t, p)
  \/ \E t \in URLs : ItemErrored(t)

Spec == Init /\ [][Next]_vars

\* ---- readAndPlay on its own: decoding and scheduling of one stream -------
MaxStreamLen == 4   \* bytes in the whole stream
MaxPiece     == 3   \* bytes in one chunk of it
MaxPolls     == 4   \* reader.read() calls answered with a chunk
MaxTime      == 3   \* device time, in frames

Bytes == {0, 1, 128, 255}

BoundedSeq(S, n) == UNION {[1..k -> S] : k \in 0..n}

\* A scheduler that starts every buffer at the device's current time.
DeviceTimeOnly(a, b) == a

Max(a, b) == IF a > b THEN a ELSE b

\* a | b and a & b for non-negative a and b, bit by bit.
RECURSIVE BitOr(_, _)
BitOr(a, b) ==
  IF a = 0 THEN b
  ELSE IF b = 0 THEN a
  ELSE (IF a % 2 = 1 \/ b % 2 = 1 THEN 1 ELSE 0) + 2 * BitOr(a \div 2, b \div 2)

RECURSIVE BitAnd(_, _)
BitAnd(a, b) ==
  IF a = 0 \/ b = 0 THEN 0
  ELSE (IF a % 2 = 1 /\ b % 2 = 1 THEN 1 ELSE 0) + 2 * BitAnd(a \div 2, b \div 2)

\* The signed 32-bit integer whose upper 16 bits are high and lower 16 low.
Int32(high, low) ==
  (IF high >= 32768 THEN high - 65536 ELSE high) * 65536 + low

\* A decoder that leaves out the sign extension.
Sample16Unsigned(lo, hi) == hi * 256 + lo

\* sample = (hi << 8) | lo, then sample & 0x8000 ? sample | ~0xffff : sample,
\* where ~0xffff has all upper 16 bits set and all lower 16 clear: the
\* numerator of the sample value sample / 32768.
Sample16(lo, hi) ==
  LET sample == BitOr(hi * 256, lo)
  IN  IF BitAnd(sample, 32768) # 0
      THEN Int32(BitOr(sample \div 65536, 65535), BitOr(sample % 65536, 0))
      ELSE sample

\* The channel data written for frame i (from 0) of usablePCM.
Frame(usablePCM, i) ==
  [channel \in 0..(PCM_NUM_CHANNELS - 1) |->
     LET index == (i * PCM_NUM_CHANNELS + channel) * PCM_BYTES_PER_SAMPLE
     IN  Sample16(usablePCM[index + 1], usablePCM[index + 2])]

\* The audio buffer of totalSamples frames filled from usablePCM.
DecodeFrames(usablePCM, totalSamples) ==
  [k \in 1..totalSamples |-> Frame(usablePCM, k - 1)]

\* A loop that forgets the bytes left after the last whole frame.
RemainderDropped(pcmData, usableBytes) == <<>>

\* pcmData.slice(usableBytes): the bytes after the last whole frame.
Remainder(pcmData, usableBytes) ==
  SubSeq(pcmData, usableBytes + 1, Len(pcmData))

\* One iteration of the while loop of readAndPlay: reader.read() returns the
\* next len bytes of the stream.
ReadAndPlay(len) ==
  LET value        == SubSeq(bytes, delivered + 1, delivered + len)
      pcmData      == leftoverBytes \o value
      totalSamples == Len(pcmData) \div (PCM_BYTES_PER_SAMPLE * PCM_NUM_CHANNELS)
      usableBytes  == totalSamples * PCM_BYTES_PER_SAMPLE * PCM_NUM_CHANNELS
      usablePCM    == SubSeq(pcmData, 1, usableBytes)
      start        == Max(currentTime, pcmPlaybackTime)
  IN
  /\ loop = "reading"
  /\ reads < MaxPolls
  /\ delivered + len <= Len(bytes)
  /\ reads' = reads + 1
  /\ delivered' = delivered + len
  /\ IF len = 0
     THEN UNCHANGED <<leftoverBytes, decoded, scheduled, pcmPlaybackTime, loop>>
     ELSE /\ leftoverBytes' = Remainder(pcmData, usableBytes)
          /\ IF totalSamples = 0
             THEN \* createBuffer(channels, 0, rate) throws NotSupportedError
                  /\ loop' = "failed"
                  /\ UNCHANGED <<decoded, scheduled, pcmPlaybackTime>>
             ELSE /\ decoded' = decoded \o DecodeFrames(usablePCM, totalSamples)
                  /\ scheduled' = Append(scheduled,
                                         [start |-> start, frames |-> totalSamples])
                  /\ pcmPlaybackTime' = start + totalSamples
                  /\ UNCHANGED loop
  /\ UNCHANGED <<bytes, currentTime, mainVars, segVars>>

\* reader.read() reports done: the loop ends and the leftover is dropped.
ReadAndPlayDone ==
  /\ loop = "reading"
  /\ delivered = Len(bytes)
  /\ loop' = "done"
  /\ leftoverBytes' = <<>>
  /\ UNCHANGED <<bytes, delivered, decoded, scheduled, pcmPlaybackTime,
                 currentTime, reads, mainVars, segVars>>

\* The output device's clock moves on between two reads.
ClockAdvances(t) ==
  /\ loop = "reading"
  /\ t > currentTime
  /\ currentTime' = t
  /\ UNCHANGED <<bytes, delivered, leftoverBytes, decoded, scheduled,
                 pcmPlaybackTime, loop, reads, mainVars, segVars>>

\* processPCMStream has set the cursor to the device's current time and is
\* about to run readAndPlay on some byte stream.
PcmInit ==
  /\ Loaded /\ SegOff
  /\ bytes \in BoundedSeq(Bytes, MaxStreamLen)
  /\ delivered = 0 /\ leftoverBytes = <<>>
  /\ decoded = <<>> /\ scheduled = <<>>
  /\ currentTime \in 0..1
  /\ pcmPlaybackTime = currentTime
  /\ loop = "reading" /\ reads = 0

PcmNext ==
  \/ \E len \in 0..MaxPiece : ReadAndPlay(len)
  \/ ReadAndPlayDone
  \/ \E t \in 0..MaxTime : ClockAdvances(t)

SpecPcm == PcmInit /\ [][PcmNext]_vars

\* readAndPlay on a stream of one frame of any two bytes, or of two frames.
SampleInit ==
  /\ Loaded /\ SegOff
  /\ bytes \in [1..2 -> 0..255] \cup [1..4 -> Bytes]
  /\ delivered = 0 /\ leftoverBytes = <<>>
  /\ decoded = <<>> /\ scheduled = <<>>
  /\ currentTime = 0
  /\ pcmPlaybackTime = currentTime
  /\ loop = "reading" /\ reads = 0

SampleNext ==
  \/ \E len \in 1..MaxStreamLen : ReadAndPlay(len)
  \/ ReadAndPlayDone

SpecSample == SampleInit /\ [][SampleNext]_vars

\* ---- the text handling of processText on its own ------------------------
TEXT_LENGTH_THRESHOLD == 200

MaxTextLen == 3     \* tokens in a text
MaxCalls   == 2     \* processText calls in one behaviour
BlockLen   == 200   \* letters in the token "X"

\* A text is a sequence of tokens: a letter, a block of BlockLen letters, a
\* space, a period, an ideographic full stop, a line break.
Tokens      == {"x", "X", "sp", "dot", "stop", "nl"}
Terminators == {"dot", "stop", "nl"}
Whitespace  == {"sp", "nl"}

Texts == BoundedSeq(Tokens, MaxTextLen) \ {<<>>}

\* text.length
TextLength(t) == Len(t) + (BlockLen - 1) * Cardinality({i \in 1..Len(t) : t[i] = "X"})

\* A trim that does nothing.
NoTrim(t) == t

\* String.prototype.trim
Trim(t) ==
  LET keep == {i \in 1..Len(t) : t[i] \notin Whitespace}
  IN  IF keep = {} THEN <<>>
      ELSE SubSeq(t, CHOOSE i \in keep : \A j \in keep : i <= j,
                     CHOOSE i \in keep : \A j \in keep : i >= j)

\* A pattern whose second alternative may match nothing.
MatchEndOrEmpty(t, i) ==
  LET terms == {j \in (i + 1)..Len(t) : t[j] \in Terminators}
  IN  IF terms # {} THEN CHOOSE j \in terms : \A k \in terms : j <= k
      ELSE Len(t)

\* Where a match of /[^.。\n]*[.。\n]|[^.。\n]+$/ that starts after the first i
\* tokens of t ends, or -1: the first alternative takes the non-terminators
\* up to and including the next terminator; without one, the second takes a
\* non-empty rest of the text.
MatchEnd(t, i) ==
  LET terms == {j \in (i + 1)..Len(t) : t[j] \in Terminators}
  IN  IF terms # {} THEN CHOOSE j \in terms : \A k \in terms : j <= k
      ELSE IF i < Len(t) THEN Len(t)
      ELSE -1

\* CONFIG.SENTENCE_REGEX.exec(t) with the regular expression's lastIndex at
\* li: the leftmost match at or after li and the new lastIndex, which a
\* failed search resets to 0.
Exec(t, li) ==
  LET starts == {i \in li..Len(t) : MatchEnd(t, i) # -1}
      i      == CHOOSE k \in starts : \A m \in starts : k <= m
  IN  IF starts = {}
      THEN [found |-> FALSE, match |-> <<>>, lastIndex |-> 0]
      ELSE [found |-> TRUE, match |-> SubSeq(t, i + 1, MatchEnd(t, i)),
            lastIndex |-> MatchEnd(t, i)]

\* The while loop of splitTextIntoSentences from lastIndex li on, and the
\* reset of lastIndex that follows it; matches counts the loop's iterations.
RECURSIVE Scan(_, _, _)
Scan(t, li, sentences) ==
  LET r        == Exec(t, li)
      sentence == Trim(r.match)
  IN  IF ~r.found THEN [sentences |-> sentences, lastIndex |-> 0, matches |-> 0]
      ELSE LET rest == Scan(t, r.lastIndex,
                            IF sentence # <<>> THEN Append(sentences, sentence)
                            ELSE sentences)
           IN  [rest EXCEPT !.matches = @ + 1]

\* A segmenter that returns after its first match and leaves the cursor.
FirstSentenceOnly(t, li) ==
  LET r == Exec(t, li)
  IN  [sentences |-> IF r.found /\ Trim(r.match) # <<>> THEN <<Trim(r.match)>> ELSE <<>>,
       lastIndex |-> r.lastIndex]

\* splitTextIntoSentences(t), entered with the shared lastIndex at li.
SplitTextIntoSentences(t, li) == Scan(t, li, <<>>)

\* processText(t) in non-streaming, non-download mode: the input fields of
\* the requests it leads to.
SpeechUnits(t) ==
  /\ calls < MaxCalls
  /\ calls' = calls + 1
  /\ text' = t
  /\ IF TextLength(t) > TEXT_LENGTH_THRESHOLD
     THEN LET r == SplitTextIntoSentences(t, lastIndex) IN
          /\ inputs' = r.sentences
          /\ lastIndex' = r.lastIndex
     ELSE /\ inputs' = <<t>>
          /\ UNCHANGED lastIndex
  /\ UNCHANGED <<mainVars, pcmVars>>

SegInit == Loaded /\ PcmOff /\ SegOff

SegNext == \E t \in Texts : SpeechUnits(t)

SpecSeg == SegInit /\ [][SegNext]_vars

\* ---- properties ----------------------------------------------------------
\* Items of the same multi-unit session, in the order of their text units.
Before(u, v) == Owner(u) = Owner(v) /\ Queued(u) /\ u < v

\* No continuation and no media event is left to run, and nothing is queued.
Quiescent ==
  /\ inflight = <<>>
  /\ audioQueue = <<>>
  /\ \A u \in URLs : ppc[u] \notin {"storage", "play"}
  /\ \A t \in URLs : aud[t].paused \/ aud[t].st \notin {"ready", "playing"}

\* C1: in a multi-unit session the items play in the order of the text units:
\* while item v is between its dequeue and its completion, no earlier item u
\* of the same session is still waiting in the queue or still uncompleted.
C1_PlaysInEnqueueOrder ==
  \A u \in URLs, v \in URLs :
    Before(u, v) /\ v \in active => u \notin active /\ u \notin Range(audioQueue)

\* C2: at most one queue item is between its dequeue and its completion.
C2_AtMostOneItemPlaying ==
  Cardinality({u \in active : Queued(u)}) <= 1

\* C3: once processText has started a new session the superseded ones are
\* dead: a request of a superseded session observes an aborted signal, no
\* item of a superseded session is in the queue, and a superseded
\* continuation does not write the cancellation token.
C3_SupersededSessionDead ==
  [][/\ \A s \in Sessions :
          s < nsess' /\ s \in Range(inflight') /\ pc'[s] = "fetch"
            => fsig'[s] \in aborted'
     /\ \A u \in Range(audioQueue') : Owner(u) = nsess'
     /\ (AbortReaction /\ Head(Pending) < nsess
           => currentAbortController' = currentAbortController)]_vars

\* C4: right after stopPlayback the transport is idle, the queue is empty,
\* the now-playing flag is false, there is no output device, no player and
\* no cancellation token, and every request in flight has been aborted.
C4_StopReleasesEverything ==
  [][StopPlayback =>
       /\ playbackState' = "idle" /\ audioQueue' = <<>> /\ ~isPlaying'
       /\ audioContext' = NoCtx /\ currentAudio' = NoAudio
       /\ currentAbortController' = NoCtrl
       /\ \A s \in Range(inflight') :
            pc'[s] \in {"fetch", "read"} => fsig'[s] \in aborted']_vars

\* C5: right after stopPlayback or a new processText every object URL that
\* was created has been revoked, and revoked once.
C5_HandlesReleasedOnce ==
  [][(StopPlayback \/ nsess' = nsess + 1) =>
       \A u \in URLs : url'[u].created => url'[u].revokes = 1]_vars

\* C6: no task calls logError for an error that a stopPlayback or a
\* superseding processText caused.
C6_CancellationNeverReported ==
  log # "cancel"

\* C7: from a stopPlayback until the next processText the transport stays
\* idle, nothing is queued or dequeued, and no request is issued.
C7_IdleTerminalAfterStop ==
  [][stopRequested /\ stopRequested' =>
       /\ playbackState' = "idle"
       /\ audioQueue' = <<>> /\ ~isPlaying'
       /\ \A s \in Sessions : idx'[s] > idx[s] => mode[s] # "multi"]_vars

\* C8: a single-shot session that nothing stops or supersedes is idle again
\* once its one item has played to the end.
C8_SingleShotReturnsToIdle ==
  /\ nsess = 1 /\ mode[1] = "single" /\ ~stopRequested
  /\ ppc[Url(1, 1)] = "done" /\ aud[Url(1, 1)].st = "ended"
  => playbackState = "idle"

\* C9: a streaming session whose byte stream has ended, and a queued session
\* whose loop is over and whose last item has finished, leave the transport
\* idle without any stop command.
C9_NaturalCompletionIdle ==
  /\ nsess = 1 /\ mode[1] \in {"stream", "multi"} /\ pc[1] = "done"
  /\ ~stopRequested /\ Quiescent /\ active = {} /\ ctx[1] # "suspended"
  => playbackState = "idle"

\* C10: once a session that failed for a reason other than cancellation has
\* no work left, the transport is idle.
C10_FailureLeavesIdle ==
  /\ nsess = 1 /\ ~stopRequested /\ Quiescent
  /\ pc[1] = "failed" \/ aud[Url(1, 1)].st = "failed"
  => playbackState = "idle"

C12_InvalidCommandsAreNoOps ==
  [][\A sm \in BOOLEAN :
       /\ PausePlayback(sm) /\ playbackState # "playing"
            => UNCHANGED <<playbackState, aud, ctx>>
       /\ ResumePlayback(sm) /\ playbackState # "paused"
            => UNCHANGED <<playbackState, aud, ctx>>]_vars

\* The decoding of a whole byte stream as one piece, its sub-frame
\* remainder dropped.
WholeDecoding(b) ==
  DecodeFrames(b, Len(b) \div (PCM_BYTES_PER_SAMPLE * PCM_NUM_CHANNELS))

\* C13: however the byte stream is cut into chunks, once all of its bytes
\* have been delivered and the loop is over, the scheduled samples are the
\* decoding of the whole stream as one piece.
C13_SplitInvariant ==
  loop \in {"done", "failed"} => decoded = WholeDecoding(bytes)

\* The leftover is shorter than one frame and is the part of the delivered
\* bytes that no scheduled buffer has decoded yet.
LeftoverIsUndecodedTail ==
  /\ Len(leftoverBytes) < FrameSize
  /\ leftoverBytes = SubSeq(bytes, Len(decoded) * FrameSize + 1, delivered)

\* C14: at every iteration boundary of the read loop the leftover is shorter
\* than one frame and is exactly the undecoded tail of the bytes received so
\* far (so it is dropped only when the loop ends), and an empty chunk leaves
\* the leftover and the cursor unchanged and schedules nothing.
C14_LeftoverInvariant ==
  [][/\ loop = "reading" => LeftoverIsUndecodedTail
     /\ loop' = "reading" => LeftoverIsUndecodedTail'
     /\ ReadAndPlay(0) =>
          UNCHANGED <<leftoverBytes, pcmPlaybackTime, scheduled, decoded>>]_vars

\* A one-byte leftover has been carried across an empty chunk.
C14_Witness ==
  /\ loop = "reading" /\ reads = 2 /\ delivered = 3
  /\ Len(leftoverBytes) = 1 /\ Len(decoded) = 1

\* The end of the last buffer scheduled so far.
LastEnd == scheduled[Len(scheduled)].start + scheduled[Len(scheduled)].frames

C16_ShortTextOneTrimmedUnit ==
  calls > 0 /\ TextLength(text) <= TEXT_LENGTH_THRESHOLD => inputs = <<Trim(text)>>

\* The clauses of a text: each runs up to and including the next terminator,
\* and a last run without terminator is a clause too.
NumClauses(t) ==
  Cardinality({j \in 1..Len(t) : t[j] \in Terminators})
    + (IF t[Len(t)] \in Terminators THEN 0 ELSE 1)

\* C17 as stated: a text above the threshold made of N terminator-delimited
\* clauses is split into exactly N units.
C17_OneUnitPerClause ==
  calls > 0 /\ TextLength(text) > TEXT_LENGTH_THRESHOLD
    => Len(inputs) = NumClauses(text)

\* The tokens of a text that are not whitespace, in order.
RECURSIVE NonBlank(_)
NonBlank(t) ==
  IF t = <<>> THEN <<>>
  ELSE IF Head(t) \in Whitespace THEN NonBlank(Tail(t))
  ELSE <<Head(t)>> \o NonBlank(Tail(t))

\* The units one after the other.
RECURSIVE Joined(_)
Joined(units) == IF units = <<>> THEN <<>> ELSE Head(units) \o Joined(Tail(units))

\* The clause that ends at position e of a text holds something to speak.
ClauseStart(t, e) ==
  LET before == {j \in 1..(e - 1) : t[j] \in Terminators}
  IN  IF before = {} THEN 1 ELSE (CHOOSE j \in before : \A k \in before : j >= k) + 1

NumSpokenClauses(t) ==
  Cardinality({e \in 1..Len(t) :
                 /\ t[e] \in Terminators \/ e = Len(t)
                 /\ \E j \in ClauseStart(t, e)..e : t[j] \notin Whitespace})

\* C17, amended: a text above the threshold is split into one unit for each
\* clause that is not blank; every unit is non-empty, starts and ends with a
\* token that is not whitespace, and holds no terminator before its last
\* token; the units in order hold the text's non-whitespace content.
C17_UnitsAreNonBlankClauses ==
  calls > 0 /\ TextLength(text) > TEXT_LENGTH_THRESHOLD
    => /\ Len(inputs) = NumSpokenClauses(text)
       /\ \A k \in 1..Len(inputs) :
            /\ inputs[k] # <<>>
            /\ inputs[k][1] \notin Whitespace
            /\ inputs[k][Len(inputs[k])] \notin Whitespace
            /\ \A j \in 1..(Len(inputs[k]) - 1) : inputs[k][j] \notin Terminators
       /\ NonBlank(Joined(inputs)) = NonBlank(text)

\* A long text with a blank clause between two spoken ones has been split.
C17_Witness ==
  /\ calls > 0
  /\ TextLength(text) > TEXT_LENGTH_THRESHOLD
  /\ Len(inputs) = 2
  /\ NumClauses(text) = 3

\* C18: between calls the shared scan cursor is 0, and the units of a long
\* text are those a scan of that text from a fresh cursor gives, whatever
\* texts were handled before.
C18_SegmenterStateless ==
  /\ lastIndex = 0
  /\ calls > 0 /\ TextLength(text) > TEXT_LENGTH_THRESHOLD
       => inputs = Scan(text, 0, <<>>).sentences

\* A long text of several clauses has been split after an earlier call.
C18_Witness ==
  /\ calls >= 2
  /\ TextLength(text) > TEXT_LENGTH_THRESHOLD
  /\ Len(inputs) >= 2
  /\ lastIndex = 0

\* Audio elements that are sounding, and output devices that are not closed.
SoundingItems == {u \in URLs : Audible(aud, u)}
LiveDevices   == {c \in Sessions : ctx[c] \in {"running", "suspended"}}

\* C19: at most one audio output is active: no item sounds while an output
\* device that is not closed has buffers scheduled, at most one item sounds,
\* and at most one output device is not closed.
C19_AtMostOneOutputActive ==
  /\ \A c \in LiveDevices : sched[c] => SoundingItems = {}
  /\ Cardinality(SoundingItems) <= 1
  /\ Cardinality(LiveDevices) <= 1

\* The output of the latest session is sounding: its device runs with
\* buffers scheduled (streaming), or one of its items sounds.
OwnOutputPlaying(a, c) ==
  /\ nsess > 0
  /\ IF mode[nsess] = "stream"
     THEN c[nsess] = "running" /\ sched[nsess]
     ELSE \E u \in URLs : Owner(u) = nsess /\ Audible(a, u)

\* The output of the latest session is held by a pause.
OwnOutputHeld(a, c) ==
  /\ nsess > 0
  /\ IF mode[nsess] = "stream"
     THEN c[nsess] = "suspended" /\ sched[nsess]
     ELSE \E u \in URLs : Owner(u) = nsess /\ a[u].st = "playing" /\ a[u].paused

\* C20: whatever the streaming flag is when the command arrives, a
\* pausePlayback received while the transport is playing and the latest
\* session's output sounds sets the transport to paused and silences that
\* output, and a resumePlayback received while the transport is paused and
\* that output is held sets the transport to playing and makes it sound.
C20_PauseResumeOwnOutput ==
  [][\A sm \in BOOLEAN :
       /\ PausePlayback(sm) /\ playbackState = "playing" /\ OwnOutputPlaying(aud, ctx)
            => playbackState' = "paused" /\ ~OwnOutputPlaying(aud', ctx')
       /\ ResumePlayback(sm) /\ playbackState = "paused" /\ OwnOutputHeld(aud, ctx)
            => playbackState' = "playing" /\ OwnOutputPlaying(aud', ctx')]_vars

\* Sequence q starts with sequence p.
StartsWith(q, p) == Len(q) >= Len(p) /\ SubSeq(q, 1, Len(p)) = p

\* C21: in the first, multi-unit session, a step taken while the transport
\* is paused, other than a stopPlayback or a processText, takes no item off
\* the queue and starts none: the queue only grows at its end and no item
\* becomes active.
C21_PausedBlocksDequeue ==
  [][playbackState = "paused" /\ nsess = 1 /\ mode[1] = "multi"
       => \/ StartsWith(audioQueue', audioQueue) /\ active' \subseteq active
          \/ StopPlayback
          \/ nsess' # nsess]_vars

\* C22: a processText that starts a streaming session, a multi-unit session
\* with at least one unit, or a single-shot session leaves the transport in
\* playing.
C22_StartMeansPlaying ==
  [][\A sm \in BOOLEAN, dm \in BOOLEAN, long \in BOOLEAN, n \in 0..MaxUnits :
       /\ ProcessText(sm, dm, long, n)
       /\ ModeFor(sm, dm, long) \in {"stream", "multi", "single"}
       /\ ModeFor(sm, dm, long) = "multi" => n > 0
       => playbackState' = "playing"]_vars

\* Cancellation of session s has been requested: a later processText has
\* superseded it, or a stopPlayback has arrived since it started.
CancelRequested(s) == s < nsess \/ (s = nsess /\ stopRequested)

\* C23: when a read of a streaming session returns after the session's
\* cancellation was requested, no buffer is scheduled and the loop does not
\* go on to another read.
C23_CancelledStreamGoesQuiet ==
  [][\A s \in Sessions, len \in 0..MaxChunkLen :
       mode[s] = "stream" /\ CancelRequested(s) /\ StreamRead(s, len)
         => sched' = sched /\ pc'[s] # "read"]_vars

\* C24: every decoded sample is the two's-complement little-endian reading
\* of its two bytes: sample k (from 1) of channel c comes from the bytes at
\* offset ((k - 1) * channels + c) * 2 of the stream, is lo + 256 * hi when
\* hi < 128 and lo + 256 * hi - 65536 otherwise, and lies in -32768..32767,
\* so that sample / 32768 lies in [-1, 1).
C24_ExactTwosComplement ==
  \A k \in 1..Len(decoded), c \in 0..(PCM_NUM_CHANNELS - 1) :
    LET off == ((k - 1) * PCM_NUM_CHANNELS + c) * 2
        lo  == bytes[off + 1]
        hi  == bytes[off + 2]
    IN  /\ decoded[k][c] = IF hi < 128 THEN lo + 256 * hi ELSE lo + 256 * hi - 65536
        /\ decoded[k][c] \in -32768..32767

\* A negative sample with a non-zero low byte has been decoded.
C24_Witness ==
  /\ bytes = <<200, 200>>
  /\ Len(decoded) = 1
  /\ decoded[1][0] = -14136

\* C25: every request in flight that has not been aborted observes the
\* signal of the controller that currentAbortController holds.
C25_InFlightIsAbortable ==
  \A s \in Range(inflight) :
    fsig[s] \notin aborted
      => currentAbortController # NoCtrl /\ fsig[s] = currentAbortController

\* C26: a non-empty chunk that, with the leftover, holds less than one frame
\* schedules no buffer and does not end the loop; its bytes are carried over
\* as leftover.
C26_SubFrameChunkCarriedOver ==
  [][\A len \in 1..MaxPiece :
       ReadAndPlay(len) /\ Len(leftoverBytes) + len < FrameSize
         => /\ loop' = "reading"
            /\ scheduled' = scheduled
            /\ leftoverBytes' = leftoverBytes \o SubSeq(bytes, delivered + 1, delivered + len)]_vars

\* C27: a multi-unit session has at most one request in flight; while its
\* request for unit k is in flight no unit from k on has been fetched; and
\* the queue holds the units of a session in the order of their requests.
C27_RequestsSequential ==
  /\ \A s \in Sessions :
       mode[s] = "multi"
         => /\ Cardinality({i \in DOMAIN inflight : inflight[i] = s}) <= 1
            /\ pc[s] = "fetch"
                 => \A k \in idx[s]..MaxUnits : ~url[Url(s, k)].created
  /\ \A i \in DOMAIN audioQueue, j \in DOMAIN audioQueue :
       i < j /\ Before(audioQueue[j], audioQueue[i]) => FALSE

\* The second request of a session is in flight after its first one has
\* been answered.
C27_Witness ==
  /\ mode[1] = "multi" /\ pc[1] = "fetch" /\ idx[1] = 2
  /\ url[Url(1, 1)].created
  /\ 1 \in Range(inflight)

\* C28: on the text handled last, a match of the sentence pattern from any
\* scan position is non-empty and moves the position strictly forward,
\* within the text, and the loop of splitTextIntoSentences ends after at most
\* length(text) matches.
C28_ScanTerminates ==
  /\ \A li \in 0..Len(text) :
       LET r == Exec(text, li)
       IN  r.found => /\ Len(r.match) >= 1
                      /\ r.lastIndex > li
                      /\ r.lastIndex <= Len(text)
  /\ Scan(text, 0, <<>>).matches <= Len(text)

\* A long text of three tokens has been split with three matches.
C28_Witness ==
  /\ calls > 0
  /\ TextLength(text) > TEXT_LENGTH_THRESHOLD
  /\ Len(text) = 3
  /\ Scan(text, 0, <<>>).matches = 3

====
